---- MODULE Spec2Model ----
(***************************************************************************)
(* A model of internal_displacement/pipeline.py: the CSV helpers           *)
(* (urls_from_csv) and SQLArticleInterface, the SQLite store of scraped    *)
(* articles and of labels, with its concurrent ingestion (process_urls).   *)
(*                                                                         *)
(* Python values are modelled as follows.                                  *)
(*   - a str is a TLA+ string, a list a sequence (index k of the list is   *)
(*     element k + 1 of the sequence);                                     *)
(*   - the `column` argument, which may be an int, a str or None, is a     *)
(*     record [t, i, s];                                                   *)
(*   - the outcome of a call is a record [raised, value]: raised is the    *)
(*     name of the exception that reaches the caller ("" when the call     *)
(*     returns) and value what it returns.                                 *)
(*                                                                         *)
(* The specifications share the variables: Spec (insert_article,           *)
(* update_article and the steps of process_urls), FairSpec (Spec with the  *)
(* scheduling of the threads), SpecPool (one run of process_urls on more   *)
(* urls than the pool has threads), SpecLabels (runs of                    *)
(* process_labeled_data), SpecQuery (get_training_data and to_csv on the   *)
(* tables the store can hold) and SpecCsv (urls_from_csv on bounded        *)
(* arguments).                                                             *)
(***************************************************************************)
EXTENDS Integers, Sequences, FiniteSets, TLC

VARIABLES
    Articles,         \* the rows of table Articles, in rowid order
    Labels,           \* the rows of table Labels, in rowid order
    pc,               \* the caller's thread: "idle", or its place in process_urls
    existing_urls,    \* process_urls: the urls selected from Articles (line 212)
    urls,             \* process_urls: the urls left after the filter (line 214)
    article_futures,  \* process_urls: the futures submitted so far (line 216)
    call,             \* the last call made: its arguments and, once ended, its outcome
    csv_args          \* the arguments of a call of urls_from_csv

vars == <<Articles, Labels, pc, existing_urls, urls, article_futures, call, csv_args>>

(***************************************************************************)
(* Bounds of the model.                                                    *)
(***************************************************************************)
MaxCols == 2          \* cells per csv row, at most
MaxDataRows == 2      \* rows after the header in a csv, at most
MaxArticles == 3      \* rows of Articles, at most

(***************************************************************************)
(* Python helpers.                                                         *)
(***************************************************************************)
PyInt(n) == [t |-> "int", i |-> n, s |-> ""]
PyStr(x) == [t |-> "str", i |-> 0, s |-> x]
PyNone == [t |-> "none", i |-> 0, s |-> ""]

\* bool(column): 0, "" and None are false.
Truthy(c) ==
    CASE c.t = "int" -> c.i # 0
      [] c.t = "str" -> c.s # ""
      [] OTHER -> FALSE

Return(v) == [raised |-> "", value |-> v]
Raise(e) == [raised |-> e, value |-> <<>>]

\* line[c] is defined for -len(line) <= c < len(line).
HasItem(line, c) == -Len(line) <= c /\ c < Len(line)
Item(line, c) == IF c >= 0 THEN line[c + 1] ELSE line[Len(line) + c + 1]

\* dataset[header:] for header >= 0.
SliceFrom(dataset, header) == SubSeq(dataset, header + 1, Len(dataset))

\* x in line
In(x, line) == \E k \in 1..Len(line) : line[k] = x

\* line.index(x), for x in line: the first position holding x.
IndexOf(x, line) == (CHOOSE k \in 1..Len(line) :
                        line[k] = x /\ \A j \in 1..(k - 1) : line[j] # x) - 1

\* 'http' in s
ContainsHttp(s) == \E k \in 1..(Len(s) - 3) : SubSeq(s, k, k + 3) = "http"

\* [line[c] for line in rows]: IndexError as soon as one line has no item c.
ColumnOf(rows, c) ==
    IF \E k \in 1..Len(rows) : ~HasItem(rows[k], c)
    THEN Raise("IndexError")
    ELSE Return([k \in 1..Len(rows) |-> Item(rows[k], c)])

(***************************************************************************)
(* urls_from_csv(dataset, column=None, header=1)                           *)
(***************************************************************************)
\* [i for i, s in enumerate(first_row) if 'http' in s]
HttpIndexes(first_row) ==
    {k - 1 : k \in {j \in 1..Len(first_row) : ContainsHttp(first_row[j])}}

\* [line[index] for line in rows] with index a list: the first line[index] is a
\* TypeError (list indices must be integers or slices, not list).
ColumnOfList(rows, index) ==
    IF Len(rows) = 0 THEN Return(<<>>) ELSE Raise("TypeError")

urls_from_csv(dataset, column, header) ==
    IF Truthy(column) THEN
        IF column.t = "int" THEN
            IF Len(dataset) = 0 THEN Raise("IndexError")         \* dataset[0]
            ELSE IF column.i < Len(dataset[1])
                 THEN ColumnOf(SliceFrom(dataset, header), column.i)
                 ELSE Raise("ValueError")                        \* line 86
        ELSE \* a str
            IF header = 1 THEN
                IF Len(dataset) = 0 THEN Raise("IndexError")     \* dataset[0]
                ELSE IF In(column.s, dataset[1])
                     THEN ColumnOf(SliceFrom(dataset, header),
                                   IndexOf(column.s, dataset[1]))
                     ELSE Raise("ValueError")                    \* line 82
            ELSE IF header = 0 THEN Raise("ValueError")          \* line 79
            ELSE IF Len(dataset) = 0 THEN Raise("IndexError")    \* dataset[0]
            ELSE Raise("ValueError")                             \* line 82, line 86
    ELSE IF column.t = "none" THEN
        IF header >= Len(dataset) THEN Raise("IndexError")       \* dataset[header]
        ELSE ColumnOfList(SliceFrom(dataset, header),
                          HttpIndexes(dataset[header + 1]))
    ELSE Raise("ValueError")                                     \* line 94

(***************************************************************************)
(* The inputs of urls_from_csv: datasets as csv_read returns them (rows    *)
(* may differ in length), a column that is an int, a str or None, and a    *)
(* header offset.                                                          *)
(***************************************************************************)
HeaderCells == {"URL", "http_link"}
DataCells == {"http://a.com", "x"}

RowsOver(cells) == UNION {[1..n -> cells] : n \in 1..MaxCols}

Datasets ==
    {<<>>} \cup
    UNION {{<<h>> \o d : h \in RowsOver(HeaderCells), d \in [1..n -> RowsOver(DataCells)]} :
           n \in 0..MaxDataRows}

Columns ==
    {PyInt(n) : n \in (-MaxCols - 1)..MaxCols}
    \cup {PyStr(x) : x \in {"URL", "Tag", ""}}
    \cup {PyNone}

Headers == {0, 1, 2}

CsvArgs == [dataset : Datasets, column : Columns, header : Headers]

NoArgs == [dataset |-> <<>>, column |-> PyNone, header |-> 1]

\* A call: the operation, its arguments, the number of rows of the table it
\* writes when it began, whether it repeats the call before it (the same
\* operation on the same arguments, which ended without raising), and its
\* outcome. The locals of process_urls are kept after it returns, until the
\* next call begins, so that a run can be inspected when it has ended.
NoCall == [op |-> "", args |-> <<>>, before |-> 0, again |-> FALSE,
           raised |-> "", value |-> <<>>]

Call(op, args, before, r) ==
    [op |-> op, args |-> args, before |-> before,
     again |-> (call.op = op /\ call.args = args /\ call.raised = ""),
     raised |-> r.raised, value |-> r.value]

\* The store as __init__ leaves it on a new database file: both tables
\* created (lines 155-159) and empty.
StoreInit ==
    /\ Articles = <<>>
    /\ Labels = <<>>
    /\ pc = "idle"
    /\ existing_urls = <<>>
    /\ urls = <<>>
    /\ article_futures = <<>>
    /\ call = NoCall

InitCsv == StoreInit /\ csv_args \in CsvArgs

\* One call urls_from_csv(dataset, column, header) on the arguments drawn.
urls_from_csv_call ==
    /\ call = NoCall
    /\ call' = Call("urls_from_csv", <<>>, 0,
                    urls_from_csv(csv_args.dataset, csv_args.column, csv_args.header))
    /\ UNCHANGED <<Articles, Labels, pc, existing_urls, urls, article_futures, csv_args>>

NextCsv == urls_from_csv_call

SpecCsv == InitCsv /\ [][NextCsv]_vars

(***************************************************************************)
(* Articles, as the scrape collaborator hands them to the store.           *)
(***************************************************************************)
Urls == {"http://a.com", "http://b.com"}
\* The text of the page at a url, and what scrape may put in content: that
\* text, or the failure sentinel.
PageText(u) == IF u = "http://a.com" THEN "hello" ELSE "world"
Contents(u) == {PageText(u), "retrieval_failed"}
Languages == {"", "en"}

\* An Article object: the attributes insert_article reads (lines 166-173);
\* pub_date is what article.get_pub_date_string() returns.
Article(u, c, l) ==
    [title |-> "T", url |-> u, authors |-> <<"A", "B">>, pub_date |-> "2016",
     domain |-> "news", content |-> c, content_type |-> "text", language |-> l]

ArticleInputs ==
    UNION {{Article(u, c, l) : c \in Contents(u), l \in Languages} : u \in Urls}

\* ",".join(xs)
RECURSIVE JoinComma(_)
JoinComma(xs) ==
    IF Len(xs) = 0 THEN ""
    ELSE IF Len(xs) = 1 THEN xs[1]
    ELSE xs[1] \o "," \o JoinComma(Tail(xs))

\* The column r[0] of SELECT url FROM <table>, in rowid order.
SelectUrl(rows) == [k \in 1..Len(rows) |-> rows[k].url]

\* Two faulty variants of the filter below: one that keeps every url, one with
\* the test inverted (if u in existing).
NotIn_unfiltered(us, existing) == us

RECURSIVE NotIn_inverted(_, _)
NotIn_inverted(us, existing) ==
    IF Len(us) = 0 THEN <<>>
    ELSE IF In(us[1], existing) THEN <<us[1]>> \o NotIn_inverted(Tail(us), existing)
    ELSE NotIn_inverted(Tail(us), existing)

\* [u for u in us if u not in existing]
RECURSIVE NotIn(_, _)
NotIn(us, existing) ==
    IF Len(us) = 0 THEN <<>>
    ELSE IF In(us[1], existing) THEN NotIn(Tail(us), existing)
    ELSE <<us[1]>> \o NotIn(Tail(us), existing)

(***************************************************************************)
(* insert_article(article) and update_article(article)                     *)
(***************************************************************************)
\* Whether INSERT INTO Articles raises sqlite3.IntegrityError on this row: the
\* table is created with eight plain TEXT columns and no UNIQUE or PRIMARY KEY
\* constraint (lines 156-157), so it never does.
IntegrityError(rows, row) == FALSE

\* A faulty variant of insert_article: without the test of line 174.
insert_article_unchecked(rows, article) ==
    [rows |-> Append(rows,
                     [title |-> article.title, url |-> article.url,
                      author |-> JoinComma(article.authors),
                      publish_date |-> article.pub_date, domain |-> article.domain,
                      content |-> article.content,
                      content_type |-> article.content_type,
                      language |-> article.language]),
     raised |-> ""]

\* The table after the call, and the exception that leaves the call ("" if none).
insert_article(rows, article) ==
    LET row == [title |-> article.title, url |-> article.url,
                author |-> JoinComma(article.authors),
                publish_date |-> article.pub_date, domain |-> article.domain,
                content |-> article.content,
                content_type |-> article.content_type,
                language |-> article.language]
    IN  IF article.content = "retrieval_failed"
        THEN [rows |-> rows, raised |-> ""]                  \* line 175
        ELSE IF IntegrityError(rows, row)
             \* the handler of line 180 formats its message with self.url,
             \* which the store does not have
             THEN [rows |-> rows, raised |-> "AttributeError"]
             ELSE [rows |-> Append(rows, row), raised |-> ""]

\* A faulty variant of update_article: the UPDATE without its WHERE clause.
update_article_everywhere(rows, article) ==
    [k \in 1..Len(rows) |-> [rows[k] EXCEPT !.language = article.language]]

\* UPDATE Articles SET language = ? WHERE url = ?
update_article(rows, article) ==
    [k \in 1..Len(rows) |->
        IF rows[k].url = article.url
        THEN [rows[k] EXCEPT !.language = article.language]
        ELSE rows[k]]

\* The frame of the last process_urls is gone.
NoLocals == existing_urls' = <<>> /\ urls' = <<>> /\ article_futures' = <<>>

insert_article_call ==
    /\ pc = "idle"
    /\ Len(Articles) < MaxArticles
    /\ \E a \in ArticleInputs :
          LET r == insert_article(Articles, a)
          IN  /\ Articles' = r.rows
              /\ call' = Call("insert_article", <<a>>, Len(Articles),
                              [raised |-> r.raised, value |-> <<>>])
    /\ NoLocals
    /\ UNCHANGED <<Labels, pc, csv_args>>

update_article_call ==
    /\ pc = "idle"
    /\ \E u \in Urls, l \in Languages :
          LET a == Article(u, PageText(u), l)
          IN  /\ Articles' = update_article(Articles, a)
              /\ call' = Call("update_article", <<a>>, Len(Articles), Return(<<>>))
    /\ NoLocals
    /\ UNCHANGED <<Labels, pc, csv_args>>

(***************************************************************************)
(* process_urls(url_csv, url_column="URL", scrape_pdfs=True)               *)
(*                                                                         *)
(* The caller's thread reads the csv, filters the urls, submits one scrape *)
(* per url to a pool of max_workers threads and handles the futures as     *)
(* they complete. A future is [url, state, outcome]: state is "pending"    *)
(* (queued), "running" (scrape(url) called), "done" (scrape ended) or      *)
(* "yielded" (as_completed has handed it to the loop of line 220).         *)
(***************************************************************************)
max_workers == 10

\* The csv files of the runs: a header "URL" and one url per row.
UrlCsvs ==
    UNION {{<<<<"URL">>>> \o d : d \in [1..n -> {<<u>> : u \in Urls}]} :
           n \in 0..MaxDataRows}

UrlColumns == {PyStr("URL"), PyStr("Link")}

\* What scrape(url) does: it returns an Article, an Article whose content is
\* the failure sentinel, or None, or it raises.
ScrapeOutcomes == {"article", "sentinel", "none", "raise"}

Scraped(u, outcome) ==
    Article(u, IF outcome = "sentinel" THEN "retrieval_failed" ELSE PageText(u), "")

Running == {k \in 1..Len(article_futures) : article_futures[k].state = "running"}
Pending == {k \in 1..Len(article_futures) : article_futures[k].state = "pending"}

\* Lines 210-214 on a csv. An exception of urls_from_csv leaves process_urls
\* at once.
read_and_filter(dataset, url_column) ==
    LET r == urls_from_csv(dataset, url_column, 1)
        c == Call("process_urls", <<dataset, url_column>>, Len(Articles), r)
    IN  IF r.raised # ""
        THEN /\ call' = c
             /\ NoLocals
             /\ UNCHANGED pc
        ELSE /\ call' = [c EXCEPT !.value = <<>>]
             /\ existing_urls' = SelectUrl(Articles)
             /\ urls' = NotIn(r.value, SelectUrl(Articles))
             /\ article_futures' = <<>>
             /\ pc' = "submit"

process_urls_begin ==
    /\ pc = "idle"
    /\ \E dataset \in UrlCsvs, url_column \in UrlColumns :
          /\ LET r == urls_from_csv(dataset, url_column, 1)
             IN  r.raised = ""
                    => Len(Articles) + Len(NotIn(r.value, SelectUrl(Articles))) <= MaxArticles
          /\ read_and_filter(dataset, url_column)
    /\ UNCHANGED <<Articles, Labels, csv_args>>

\* Line 219, once per url, in the order of urls; then the loop of line 220.
submit ==
    /\ pc = "submit"
    /\ IF Len(article_futures) < Len(urls)
       THEN /\ article_futures' =
                  Append(article_futures,
                         [url |-> urls[Len(article_futures) + 1],
                          state |-> "pending", outcome |-> ""])
            /\ pc' = pc
       ELSE /\ pc' = "as_completed"
            /\ UNCHANGED article_futures
    /\ UNCHANGED <<Articles, Labels, existing_urls, urls, call, csv_args>>

\* A faulty variant of scrape_start: a pool that starts a thread per task.
scrape_start_unbounded ==
    /\ pc \in {"submit", "as_completed", "commit"}
    /\ Pending # {}
    /\ LET k == CHOOSE i \in Pending : \A j \in Pending : i <= j
       IN  article_futures' = [article_futures EXCEPT ![k].state = "running"]
    /\ UNCHANGED <<Articles, Labels, pc, existing_urls, urls, call, csv_args>>

\* A free thread of the pool takes the oldest queued task and calls scrape.
scrape_start ==
    /\ pc \in {"submit", "as_completed", "commit"}
    /\ Pending # {}
    /\ Cardinality(Running) < max_workers
    /\ LET k == CHOOSE i \in Pending : \A j \in Pending : i <= j
       IN  article_futures' = [article_futures EXCEPT ![k].state = "running"]
    /\ UNCHANGED <<Articles, Labels, pc, existing_urls, urls, call, csv_args>>

\* A faulty variant of scrape_end: the task of the pool inserts the article
\* itself, on the pool's thread, when scrape has returned.
scrape_end_inserting ==
    /\ \E k \in Running, o \in ScrapeOutcomes :
          /\ article_futures' = [article_futures EXCEPT ![k].state = "done",
                                                        ![k].outcome = o]
          /\ Articles' = IF o \in {"article", "sentinel"}
                         THEN insert_article(Articles, Scraped(article_futures[k].url, o)).rows
                         ELSE Articles
    /\ UNCHANGED <<Labels, pc, existing_urls, urls, call, csv_args>>

\* scrape(url) ends, in any order among the running tasks.
scrape_end ==
    /\ \E k \in Running, o \in ScrapeOutcomes :
          article_futures' = [article_futures EXCEPT ![k].state = "done",
                                                     ![k].outcome = o]
    /\ UNCHANGED <<Articles, Labels, pc, existing_urls, urls, call, csv_args>>

\* A faulty variant of the loop body: the batch in one transaction, which a
\* scrape that raised or an insert that is skipped rolls back.
handle_future_rolling_back(rows, f) ==
    IF f.outcome \in {"raise", "sentinel"}
    THEN [rows |-> SubSeq(rows, 1, call.before), raised |-> ""]
    ELSE IF f.outcome = "none"
    THEN [rows |-> rows, raised |-> ""]
    ELSE [rows |-> insert_article(rows, Scraped(f.url, f.outcome)).rows,
          raised |-> ""]

\* A faulty variant of the loop body: without the except clause of line 228.
handle_future_uncaught(rows, f) ==
    IF f.outcome = "raise"
    THEN [rows |-> rows, raised |-> "Exception"]
    ELSE IF f.outcome = "none"
    THEN [rows |-> rows, raised |-> ""]
    ELSE insert_article(rows, Scraped(f.url, f.outcome))

\* The body of the loop (lines 221-229) on a completed future: the table
\* after it, and the exception that leaves the loop ("" if none).
handle_future(rows, f) ==
    IF f.outcome = "raise"
    THEN [rows |-> rows, raised |-> ""]          \* f.result() raises: line 228
    ELSE IF f.outcome = "none"
    THEN [rows |-> rows, raised |-> ""]          \* line 224
    ELSE [rows |-> insert_article(rows, Scraped(f.url, f.outcome)).rows,
          raised |-> ""]                         \* line 227; line 228 if it raises

\* A faulty variant of as_completed: break instead of continue at line 224, so
\* that the first scrape found to have returned None ends the loop.
as_completed_breaking ==
    /\ pc = "as_completed"
    /\ \E k \in 1..Len(article_futures) :
          /\ article_futures[k].state = "done"
          /\ LET h == handle_future(Articles, article_futures[k])
             IN  /\ Articles' = h.rows
                 /\ article_futures' = [article_futures EXCEPT ![k].state = "yielded"]
                 /\ pc' = IF article_futures[k].outcome = "none" THEN "idle"
                          ELSE IF Len(h.rows) > Len(Articles) THEN "commit" ELSE pc
                 /\ UNCHANGED call
    /\ UNCHANGED <<Labels, existing_urls, urls, csv_args>>

\* A faulty variant of as_completed: a url whose scrape raised is queued again.
as_completed_retrying ==
    /\ pc = "as_completed"
    /\ \E k \in 1..Len(article_futures) :
          /\ article_futures[k].state = "done"
          /\ LET h == handle_future(Articles, article_futures[k])
             IN  /\ Articles' = h.rows
                 /\ article_futures' =
                       [article_futures EXCEPT
                           ![k].state = IF article_futures[k].outcome = "raise"
                                        THEN "pending" ELSE "yielded"]
                 /\ pc' = IF Len(h.rows) > Len(Articles) THEN "commit" ELSE pc
                 /\ UNCHANGED call
    /\ UNCHANGED <<Labels, existing_urls, urls, csv_args>>

\* as_completed yields a future that is done; the loop body handles it. When
\* the body reaches the INSERT of insert_article (line 177) the row is in the
\* table at once (the connection is opened with isolation_level=None), and the
\* caller's thread goes on to the commit of line 179.
as_completed ==
    /\ pc = "as_completed"
    /\ \E k \in 1..Len(article_futures) :
          /\ article_futures[k].state = "done"
          /\ LET h == handle_future(Articles, article_futures[k])
             IN  /\ Articles' = h.rows
                 /\ article_futures' = [article_futures EXCEPT ![k].state = "yielded"]
                 /\ IF h.raised # ""
                    THEN /\ pc' = "idle"
                         /\ call' = [call EXCEPT !.raised = h.raised]
                    ELSE /\ pc' = IF Len(h.rows) > Len(Articles) THEN "commit" ELSE pc
                         /\ UNCHANGED call
    /\ UNCHANGED <<Labels, existing_urls, urls, csv_args>>

\* self.sql_connection.commit() of line 179 ends the insert; the loop goes on.
commit ==
    /\ pc = "commit"
    /\ pc' = "as_completed"
    /\ UNCHANGED <<Articles, Labels, existing_urls, urls, article_futures, call, csv_args>>

\* Every future has been yielded: the with block ends and process_urls returns.
process_urls_return ==
    /\ pc = "as_completed"
    /\ \A k \in 1..Len(article_futures) : article_futures[k].state = "yielded"
    /\ pc' = "idle"
    /\ UNCHANGED <<Articles, Labels, existing_urls, urls, article_futures, call, csv_args>>

(***************************************************************************)
(* process_labeled_data(csv_filepath, url_column_name="URL",               *)
(*                      label_column_name="Tag")                           *)
(***************************************************************************)
Categories == {"X", "Y"}

\* The labelled csv files: a header "URL", "Tag" and one (url, tag) per row.
LabelCsvs ==
    UNION {{<<<<"URL", "Tag">>>> \o d : d \in [1..n -> {<<u, c>> : u \in Urls, c \in Categories}]} :
           n \in 0..MaxDataRows}

LabelColumns == {<<"URL", "Tag">>, <<"URL", "Label">>}

\* list(df[name].values) for the frame pd.read_csv makes of the csv: the
\* cells under the header cell `name`, or KeyError when there is none.
DfColumn(dataset, name) ==
    IF In(name, dataset[1])
    THEN ColumnOf(SliceFrom(dataset, 1), IndexOf(name, dataset[1]))
    ELSE Raise("KeyError")

Min(a, b) == IF a <= b THEN a ELSE b

\* list(zip(us, ls)): as long as the shorter of the two.
Zip(us, ls) ==
    [k \in 1..Min(Len(us), Len(ls)) |-> [url |-> us[k], category |-> ls[k]]]

\* The table Labels after the call, and the exception that leaves it.
process_labeled_data(rows, dataset, url_column_name, label_column_name) ==
    LET us == DfColumn(dataset, url_column_name)                 \* line 241
        ls == DfColumn(dataset, label_column_name)               \* line 245
    IN  IF us.raised # "" THEN [rows |-> rows, raised |-> us.raised]
        ELSE IF ls.raised # "" THEN [rows |-> rows, raised |-> ls.raised]
        ELSE [rows |-> rows \o Zip(NotIn(us.value, SelectUrl(rows)), ls.value),
              raised |-> ""]

process_labeled_data_call ==
    /\ pc = "idle"
    /\ \E dataset \in LabelCsvs, cols \in LabelColumns :
          LET r == process_labeled_data(Labels, dataset, cols[1], cols[2])
          IN  /\ Labels' = r.rows
              /\ call' = Call("process_labeled_data", <<dataset, cols>>, Len(Labels),
                              [raised |-> r.raised, value |-> <<>>])
    /\ NoLocals
    /\ UNCHANGED <<Articles, pc, csv_args>>

(***************************************************************************)
(* to_csv(table, output)                                                   *)
(*                                                                         *)
(* The file written is modelled by its text, as csv.writer produces it:    *)
(* cells joined by commas, a cell that holds a comma or a quote put in     *)
(* quotes with its quotes doubled, every row ended by "\r\n".              *)
(***************************************************************************)
\* The table names to_csv is called with: the two tables of the store and a
\* name that is no table.
Tables == {"Articles", "Labels", "Sources"}

\* The columns of the tables, as CREATE TABLE declares them (lines 156-158).
ColumnNames(table) ==
    IF table = "Articles"
    THEN <<"title", "url", "author", "publish_date", "domain", "content",
           "content_type", "language">>
    ELSE <<"url", "category">>

\* SELECT * FROM <table>: the rows in rowid order, each with its cells in the
\* order of the columns.
SelectAll(rows, table) ==
    [k \in 1..Len(rows) |->
        [c \in 1..Len(ColumnNames(table)) |-> rows[k][ColumnNames(table)[c]]]]

\* Whether text holds the character ch.
RECURSIVE Holds(_, _)
Holds(text, ch) ==
    IF Len(text) = 0 THEN FALSE
    ELSE SubSeq(text, 1, 1) = ch \/ Holds(SubSeq(text, 2, Len(text)), ch)

\* text with every quote doubled.
RECURSIVE Doubled(_)
Doubled(text) ==
    IF Len(text) = 0 THEN ""
    ELSE (IF SubSeq(text, 1, 1) = "\"" THEN "\"\"" ELSE SubSeq(text, 1, 1))
         \o Doubled(SubSeq(text, 2, Len(text)))

\* A cell as csv.writer writes it (QUOTE_MINIMAL).
Quoted(cell) ==
    IF Holds(cell, ",") \/ Holds(cell, "\"")
    THEN "\"" \o Doubled(cell) \o "\""
    ELSE cell

\* writer.writerow(cells): the text of one row.
writerow(cells) ==
    JoinComma([c \in 1..Len(cells) |-> Quoted(cells[c])]) \o "\r\n"

\* writer.writerows(data)
RECURSIVE writerows(_)
writerows(data) ==
    IF Len(data) = 0 THEN ""
    ELSE writerow(data[1]) \o writerows(Tail(data))

\* A faulty variant of to_csv: without the writerow(headers) of line 263.
to_csv_headless(as, ls, table) ==
    IF table \notin {"Articles", "Labels"}
    THEN Raise("OperationalError")
    ELSE Return(<<writerows(SelectAll(IF table = "Articles" THEN as ELSE ls, table))>>)

\* The text of the file written, or the exception that leaves the call: the
\* SELECT of line 257 raises sqlite3.OperationalError for a name that is no
\* table, which the except ValueError of line 259 does not catch.
to_csv(as, ls, table) ==
    IF table \notin {"Articles", "Labels"}
    THEN Raise("OperationalError")
    ELSE LET data == SelectAll(IF table = "Articles" THEN as ELSE ls, table)
             headers == ColumnNames(table)                       \* line 258
         IN  Return(<<writerow(headers) \o writerows(data)>>)    \* lines 263-264

to_csv_call ==
    /\ pc = "idle"
    /\ \E table \in Tables :
          call' = Call("to_csv", <<table>>, 0, to_csv(Articles, Labels, table))
    /\ NoLocals
    /\ UNCHANGED <<Articles, Labels, pc, csv_args>>

(***************************************************************************)
(* get_training_data()                                                     *)
(***************************************************************************)
\* SELECT content, category FROM Articles INNER JOIN Labels
\* ON Articles.url = Labels.url: the rows (content, category), Articles in
\* the outer loop.
RECURSIVE Matching(_, _)
Matching(a, ls) ==
    IF Len(ls) = 0 THEN <<>>
    ELSE (IF a.url = ls[1].url THEN <<<<a.content, ls[1].category>>>> ELSE <<>>)
         \o Matching(a, Tail(ls))

\* A faulty variant of the join: without its ON clause, every article paired
\* with every label.
InnerJoin_unconditioned(as, ls) ==
    [k \in 1..(Len(as) * Len(ls)) |->
        <<as[((k - 1) \div Len(ls)) + 1].content, ls[((k - 1) % Len(ls)) + 1].category>>]

RECURSIVE InnerJoin(_, _)
InnerJoin(as, ls) ==
    IF Len(as) = 0 THEN <<>>
    ELSE Matching(as[1], ls) \o InnerJoin(Tail(as), ls)

\* The pair the call returns (line 277).
get_training_data(as, ls) ==
    LET training_cases == InnerJoin(as, ls)
        labels == [k \in 1..Len(training_cases) |-> training_cases[k][2]]
        features == [k \in 1..Len(training_cases) |-> training_cases[k][1]]
    IN  <<labels, features>>

get_training_data_call ==
    /\ pc = "idle"
    /\ call' = Call("get_training_data", <<>>, 0,
                    Return(get_training_data(Articles, Labels)))
    /\ NoLocals
    /\ UNCHANGED <<Articles, Labels, pc, csv_args>>

Init == StoreInit /\ csv_args = NoArgs

Next ==
    \/ insert_article_call
    \/ update_article_call
    \/ process_urls_begin
    \/ submit
    \/ scrape_start
    \/ scrape_end
    \/ as_completed
    \/ commit
    \/ process_urls_return

Spec == Init /\ [][Next]_vars

\* Spec with the scheduling the code relies on: the caller's thread keeps
\* running (submit, as_completed, commit, process_urls_return), a free thread
\* of the pool takes a queued task (scrape_start), and every scrape ends, by
\* returning or by raising (scrape_end).
FairSpec ==
    /\ Spec
    /\ WF_vars(submit)
    /\ WF_vars(scrape_start)
    /\ WF_vars(scrape_end)
    /\ WF_vars(as_completed)
    /\ WF_vars(commit)
    /\ WF_vars(process_urls_return)

\* The pool under load: one run of process_urls, on a new store, on a csv that
\* lists one url more than the pool has threads, at a time when every scrape
\* raises (the sites are down), so that the run stores nothing.
PoolCsv == <<<<"URL">>>> \o [k \in 1..(max_workers + 1) |-> <<"http://a.com">>]

process_urls_begin_loaded ==
    /\ pc = "idle"
    /\ call = NoCall
    /\ read_and_filter(PoolCsv, PyStr("URL"))
    /\ UNCHANGED <<Articles, Labels, csv_args>>

scrape_end_raising ==
    /\ scrape_end
    /\ \A k \in 1..Len(article_futures') : article_futures'[k].outcome \in {"", "raise"}

NextPool ==
    \/ process_urls_begin_loaded
    \/ submit
    \/ scrape_start
    \/ scrape_end_raising
    \/ as_completed
    \/ process_urls_return

SpecPool == Init /\ [][NextPool]_vars

\* The labels side of the store: runs of process_labeled_data, one after the
\* other, on a store that starts empty.
NextLabels == process_labeled_data_call

SpecLabels == Init /\ [][NextLabels]_vars

\* The queries of the store, which read the tables and write nothing, on the
\* tables the store can hold: any rows insert_article appends, and any rows
\* one process_labeled_data puts into an empty Labels.
ArticleTables ==
    UNION {[1..n -> {insert_article(<<>>, a).rows[1] :
                        a \in {x \in ArticleInputs : x.content # "retrieval_failed"}}] :
           n \in 0..MaxArticles}

LabelTables ==
    {process_labeled_data(<<>>, dataset, "URL", "Tag").rows : dataset \in LabelCsvs}

InitQuery ==
    /\ Articles \in ArticleTables
    /\ Labels \in LabelTables
    /\ pc = "idle"
    /\ existing_urls = <<>>
    /\ urls = <<>>
    /\ article_futures = <<>>
    /\ call = NoCall
    /\ csv_args = NoArgs

NextQuery ==
    \/ get_training_data_call
    \/ to_csv_call

SpecQuery == InitQuery /\ [][NextQuery]_vars

(***************************************************************************)
(* The claims. A call that has ended is described by `call` (pc = "idle"); *)
(* the rows a call found in the table it writes are the first call.before  *)
(* rows of the table, and the rows it added are those after them.          *)
(***************************************************************************)
Ended(op) == pc = "idle" /\ call.op = op
RowsBefore(table) == SubSeq(table, 1, call.before)
RowsAdded(table) == SubSeq(table, call.before + 1, Len(table))

\* C1: no two rows of Articles have the same url, and insert_article on a url
\* that is already stored returns without raising and adds no row.
C1_ArticleUrlsUnique ==
    /\ \A i, j \in 1..Len(Articles) : Articles[i].url = Articles[j].url => i = j
    /\ (Ended("insert_article") /\ In(call.args[1].url, SelectUrl(RowsBefore(Articles))))
          => (call.raised = "" /\ Len(Articles) = call.before)

\* The (url, category) pairs of the rows of a labelled csv, in row order.
CsvPairs(dataset) ==
    [k \in 1..(Len(dataset) - 1) |->
        [url |-> dataset[k + 1][1], category |-> dataset[k + 1][2]]]

RECURSIVE PairsNotIn(_, _)
PairsNotIn(pairs, existing) ==
    IF Len(pairs) = 0 THEN <<>>
    ELSE (IF In(pairs[1].url, existing) THEN <<>> ELSE <<pairs[1]>>)
         \o PairsNotIn(Tail(pairs), existing)

\* C2: process_labeled_data inserts exactly the (url, category) pairs of the
\* csv rows whose url was not in Labels, each url with the category its own
\* row gives it.
C2_InsertsPairsOfCsv ==
    (Ended("process_labeled_data") /\ call.raised = "")
        => RowsAdded(Labels) =
              PairsNotIn(CsvPairs(call.args[1]), SelectUrl(RowsBefore(Labels)))

\* The urls under the header of the csv of a process_urls call.
CsvUrls(dataset) == [k \in 1..(Len(dataset) - 1) |-> dataset[k + 1][1]]

\* The futures whose scrape has been called.
Invoked == {k \in 1..Len(article_futures) : article_futures[k].state # "pending"}

\* C3: a run of process_urls never calls scrape for a url that was in Articles
\* when the run began.
C3_DedupBeforeFetch ==
    call.op = "process_urls"
        => \A k \in Invoked :
              ~In(article_futures[k].url, SelectUrl(RowsBefore(Articles)))

\* The run began on a csv that lists a stored url, and scrape has been called
\* for another url of that csv.
C3_Witness ==
    /\ call.op = "process_urls"
    /\ pc = "as_completed"
    /\ \E k \in 1..Len(CsvUrls(call.args[1])) :
          In(CsvUrls(call.args[1])[k], SelectUrl(RowsBefore(Articles)))
    /\ Invoked # {}

\* The futures that have been handled and whose scrape returned a usable
\* article.
Usable ==
    {k \in 1..Len(article_futures) :
        article_futures[k].state = "yielded" /\ article_futures[k].outcome = "article"}

\* C4, as stated: after a second run of process_urls on the same csv, right
\* after the first, Articles has as many rows as after the first run.
C4_SameRowCount ==
    (Ended("process_urls") /\ call.raised = "" /\ call.again)
        => Len(Articles) = call.before

\* C4, amended: the second run adds no row for a url the first run stored; it
\* adds one row per scrape that returns a usable article, all for urls that
\* were not stored, so the row count is that of one run when there is none.
C4_SecondRunAddsOnlyUnstored ==
    (Ended("process_urls") /\ call.raised = "" /\ call.again)
        => /\ \A k \in 1..Len(RowsAdded(Articles)) :
                 ~In(RowsAdded(Articles)[k].url, SelectUrl(RowsBefore(Articles)))
           /\ Len(Articles) = call.before + Cardinality(Usable)

\* A second run on the same csv has returned: the csv lists a url the first
\* run stored, and the second run has added a row for another.
C4_Witness ==
    /\ Ended("process_urls") /\ call.raised = "" /\ call.again
    /\ call.before > 0
    /\ \E k \in 1..Len(CsvUrls(call.args[1])) :
          In(CsvUrls(call.args[1])[k], SelectUrl(RowsBefore(Articles)))
    /\ Len(Articles) > call.before

\* C5: no row of Articles holds the failure sentinel as its content, and
\* insert_article of an article with that content returns without raising and
\* leaves the number of rows as it was.
C5_SentinelNeverStored ==
    /\ \A k \in 1..Len(Articles) : Articles[k].content # "retrieval_failed"
    /\ (Ended("insert_article") /\ call.args[1].content = "retrieval_failed")
          => (call.raised = "" /\ Len(Articles) = call.before)

\* insert_article has been called with a sentinel article on a table that
\* holds rows.
C5_Witness ==
    /\ Ended("insert_article")
    /\ call.args[1].content = "retrieval_failed"
    /\ Len(Articles) > 0

\* C6: once urls are submitted, no exception leaves process_urls (the only one
\* that does is that of urls_from_csv, before anything is submitted); every
\* future handled whose scrape returned a usable article has its row in
\* Articles, whatever the others did; and the run returns only when every url
\* was submitted and every future handled.
C6_PartialFailureContained ==
    call.op = "process_urls"
        => /\ call.raised # ""
                => /\ call.raised = urls_from_csv(call.args[1], call.args[2], 1).raised
                   /\ article_futures = <<>>
           /\ call.raised = ""
                => /\ Len(RowsAdded(Articles)) = Cardinality(Usable)
                   /\ \A k \in Usable :
                         \E j \in 1..Len(RowsAdded(Articles)) :
                            /\ RowsAdded(Articles)[j].url = article_futures[k].url
                            /\ RowsAdded(Articles)[j].content = PageText(article_futures[k].url)
           /\ (pc = "idle" /\ call.raised = "")
                => /\ Len(article_futures) = Len(urls)
                   /\ \A k \in 1..Len(article_futures) :
                         article_futures[k].state = "yielded"

\* A run has returned in which one scrape raised and was handled first, and
\* another returned a usable article, which is stored.
C6_Witness ==
    /\ Ended("process_urls") /\ call.raised = ""
    /\ \E k \in 1..Len(article_futures) : article_futures[k].outcome = "raise"
    /\ Usable # {}
    /\ Len(Articles) > call.before

\* C7: get_training_data returns (contents, categories): first the contents of
\* the joined rows, then their categories.
C7_ContentsThenCategories ==
    Ended("get_training_data")
        => LET joined == InnerJoin(Articles, Labels)
           IN  call.value = << [k \in 1..Len(joined) |-> joined[k][1]],
                               [k \in 1..Len(joined) |-> joined[k][2]] >>

\* The arguments a call of urls_from_csv was made on.
Dataset == csv_args.dataset
Column == csv_args.column
DataRows == SliceFrom(Dataset, 1)

\* C8: with a header and an integer column c, 0 <= c < len(dataset[0]),
\* urls_from_csv returns the cell at index c of every row after the header,
\* in row order (stated for datasets whose rows all have that cell).
C8_IntegerColumn ==
    (/\ Ended("urls_from_csv")
     /\ csv_args.header = 1 /\ Len(Dataset) >= 1
     /\ Column.t = "int" /\ 0 <= Column.i /\ Column.i < Len(Dataset[1])
     /\ \A k \in 1..Len(DataRows) : Column.i < Len(DataRows[k]))
        => /\ call.raised = ""
           /\ call.value = [k \in 1..Len(DataRows) |-> DataRows[k][Column.i + 1]]

\* The header cells that contain "http".
HttpHeaders == {k \in 1..Len(Dataset[1]) : ContainsHttp(Dataset[1][k])}
FirstHttpHeader == CHOOSE k \in HttpHeaders : \A j \in HttpHeaders : k <= j

\* C9: with a header and no column, urls_from_csv returns the values under the
\* first header cell that contains "http", for the rows after the header, and
\* fails with a ValueError (the configuration error) when no header cell does
\* (stated for datasets whose rows all have that cell).
C9_ColumnOmitted ==
    (/\ Ended("urls_from_csv")
     /\ csv_args.header = 1 /\ Len(Dataset) >= 1
     /\ Column.t = "none")
        => IF HttpHeaders = {}
           THEN call.raised = "ValueError"
           ELSE (\A k \in 1..Len(DataRows) : FirstHttpHeader <= Len(DataRows[k]))
                   => /\ call.raised = ""
                      /\ call.value = [k \in 1..Len(DataRows) |-> DataRows[k][FirstHttpHeader]]

\* C10: urls_from_csv fails with a ValueError (the configuration error) and
\* returns nothing when a column name is given and there is no header
\* (header = 0), when a column name is given that is not in the header row,
\* and when an integer is given that is no index of row 0.
C10_ConfigurationErrors ==
    (/\ Ended("urls_from_csv")
     /\ \/ Column.t = "str" /\ csv_args.header = 0
        \/ /\ Column.t = "str" /\ csv_args.header = 1
           /\ Len(Dataset) >= 1 /\ ~In(Column.s, Dataset[1])
        \/ /\ Column.t = "int"
           /\ Len(Dataset) >= 1 /\ ~HasItem(Dataset[1], Column.i))
        => call.raised = "ValueError"

\* The fields of a row of Articles other than language.
OtherFields ==
    {"title", "url", "author", "publish_date", "domain", "content", "content_type"}

\* C11: a call of update_article changes nothing but the language of the rows
\* whose url is that of the article: Articles keeps its number of rows, those
\* rows take the article's language and keep their other fields, the rows of
\* other urls and the table Labels stay as they were, and the call returns
\* without raising (also when no row has the url).
C11_UpdateChangesLanguageOnly ==
    [][(pc = "idle" /\ call'.op = "update_article")
          => /\ Len(Articles') = Len(Articles)
             /\ \A k \in 1..Len(Articles) :
                   /\ \A f \in OtherFields : Articles'[k][f] = Articles[k][f]
                   /\ Articles'[k].language =
                         IF Articles[k].url = call'.args[1].url
                         THEN call'.args[1].language
                         ELSE Articles[k].language
             /\ Labels' = Labels
             /\ call'.raised = ""]_vars

\* update_article has set the language of the rows of one url, on a table
\* that also holds a row of another url, whose language is another.
C11_Witness ==
    /\ Ended("update_article")
    /\ call.args[1].language = "en"
    /\ \E i, j \in 1..Len(Articles) :
          /\ Articles[i].url = call.args[1].url
          /\ Articles[i].language = "en"
          /\ Articles[j].url # call.args[1].url
          /\ Articles[j].language = ""

\* Reading a csv text back, as csv.reader does. A position is outside quotes
\* when an even number of quote characters precede it.
Outside(text, i) ==
    Cardinality({j \in 1..(i - 1) : SubSeq(text, j, j) = "\""}) % 2 = 0

\* The positions of the row endings and of the cell separators of a text.
RowEnds(text) ==
    {i \in 1..(Len(text) - 1) : SubSeq(text, i, i + 1) = "\r\n" /\ Outside(text, i)}

Commas(text) ==
    {i \in 1..Len(text) : SubSeq(text, i, i) = "," /\ Outside(text, i)}

\* The n-th smallest element of a set of numbers.
Nth(S, n) == CHOOSE x \in S : Cardinality({y \in S : y <= x}) = n

\* A cell without its quotes, its doubled quotes single again.
RECURSIVE Undoubled(_)
Undoubled(text) ==
    IF Len(text) = 0 THEN ""
    ELSE IF Len(text) >= 2 /\ SubSeq(text, 1, 2) = "\"\""
    THEN "\"" \o Undoubled(SubSeq(text, 3, Len(text)))
    ELSE SubSeq(text, 1, 1) \o Undoubled(SubSeq(text, 2, Len(text)))

Unquoted(cell) ==
    IF Len(cell) >= 2 /\ SubSeq(cell, 1, 1) = "\""
    THEN Undoubled(SubSeq(cell, 2, Len(cell) - 1))
    ELSE cell

\* The cells of one row of text (without its ending).
ReadRow(text) ==
    LET seps == Commas(text) \cup {0, Len(text) + 1}
    IN  [c \in 1..(Cardinality(seps) - 1) |->
            Unquoted(SubSeq(text, Nth(seps, c) + 1, Nth(seps, c + 1) - 1))]

\* The rows of a csv text.
ReadCsv(text) ==
    LET ends == RowEnds(text) \cup {-1}
    IN  [k \in 1..(Cardinality(ends) - 1) |->
            ReadRow(SubSeq(text, Nth(ends, k) + 2, Nth(ends, k + 1) - 1))]

\* The rows of the table a to_csv call names.
Stored(table) == IF table = "Articles" THEN Articles ELSE Labels

\* C12: to_csv of Articles or Labels writes a file whose first row is the
\* column names of the table and whose following rows are the stored rows, one
\* each, in the order they are stored (the header row alone when the table is
\* empty), and the call leaves both tables as they were.
C12_ExportHeaderThenRows ==
    /\ [](  (Ended("to_csv") /\ call.args[1] \in {"Articles", "Labels"})
              => /\ call.raised = ""
                 /\ LET table == call.args[1]
                        names == ColumnNames(table)
                    IN  ReadCsv(call.value[1]) =
                           <<names>> \o
                           [k \in 1..Len(Stored(table)) |->
                               [c \in 1..Len(names) |-> Stored(table)[k][names[c]]]])
    /\ [][call'.op = "to_csv" => (Articles' = Articles /\ Labels' = Labels)]_vars

\* to_csv has written Articles, which holds rows of two urls.
C12_Witness ==
    /\ Ended("to_csv") /\ call.raised = ""
    /\ call.args[1] = "Articles"
    /\ \E i, j \in 1..Len(Articles) : Articles[i].url # Articles[j].url

\* C13: at every moment of a run of process_urls, at most max_workers scrape
\* tasks are executing, however many urls the csv lists.
C13_AtMostMaxWorkersScraping ==
    Cardinality(Running) <= max_workers

\* The pool is full: max_workers scrapes are executing and a task waits in
\* the queue for a free thread.
C13_Witness ==
    /\ call.op = "process_urls"
    /\ Len(CsvUrls(call.args[1])) > max_workers
    /\ Cardinality(Running) = max_workers
    /\ Pending # {}

\* C14: during a run of process_urls the inserts into Articles are made one
\* at a time: every INSERT is executed by the caller's thread, in its loop
\* over the completed futures, and none is executed while an insert is between
\* its execute and its commit (pc = "commit").
C14_InsertsOneAtATime ==
    [][(call.op = "process_urls" /\ pc # "idle" /\ Articles' # Articles)
          => (pc = "as_completed" /\ pc' = "commit")]_vars

\* An insert is between its execute and its commit while the scrape of
\* another url has returned an article, which waits for its own insert.
C14_Witness ==
    /\ pc = "commit"
    /\ \E k \in 1..Len(article_futures) :
          /\ article_futures[k].state = "done"
          /\ article_futures[k].outcome = "article"

\* The place of a future in the life of its url: in flight until the loop has
\* handled it, then stored or failed.
UrlState(f) ==
    IF f.state # "yielded" THEN "in-flight"
    ELSE IF f.outcome = "article" THEN "stored" ELSE "failed"

\* C15: in a run of process_urls every url of the csv goes from unseen to in
\* flight to stored or failed, or is skipped before any fetch, and stays
\* there: a url is not submitted to scrape again after a task of it has
\* completed, no url ends both stored and failed, and the run returns when
\* every scrape ends.
C15_OneTaskPerUrl ==
    /\ [][pc # "idle"
            => \A k \in (1..Len(article_futures')) \ (1..Len(article_futures)) :
                  ~ \E j \in 1..Len(article_futures) :
                       /\ article_futures[j].url = article_futures'[k].url
                       /\ article_futures[j].state \in {"done", "yielded"}]_vars
    /\ [](\A i, j \in 1..Len(article_futures) :
             article_futures[i].url = article_futures[j].url
                => ~ (/\ UrlState(article_futures[i]) = "stored"
                      /\ UrlState(article_futures[j]) = "failed"))
    /\ (pc # "idle") ~> (pc = "idle")

\* What holds of C15 row by row of the csv, a url listed twice being submitted
\* twice: every url of the csv that was stored before the run is skipped and
\* never fetched; every other row is submitted once, is in flight (queued,
\* then scraped once, then completed) and ends stored or failed, which it
\* never leaves; the run returns only when every task has completed and every
\* row is skipped, stored or failed; and, every scrape ending, the run does
\* return.
C15_UrlStatesAndTermination ==
    /\ [][pc # "idle"
            => /\ Len(article_futures') >= Len(article_futures)
               /\ urls' = urls /\ existing_urls' = existing_urls
               /\ \A k \in 1..Len(article_futures) :
                     LET f == article_futures[k]
                         g == article_futures'[k]
                     IN  /\ g.url = f.url
                         /\ <<f.state, g.state>> \in
                               {<<"pending", "pending">>, <<"pending", "running">>,
                                <<"running", "running">>, <<"running", "done">>,
                                <<"done", "done">>, <<"done", "yielded">>,
                                <<"yielded", "yielded">>}
                         /\ f.state \in {"done", "yielded"} => g.outcome = f.outcome
                         /\ UrlState(f) # "in-flight" => UrlState(g) = UrlState(f)
               /\ (pc' = "idle" /\ call'.raised = "")
                     => /\ Len(article_futures) = Len(urls)
                        /\ \A k \in 1..Len(article_futures) :
                              UrlState(article_futures[k]) \in {"stored", "failed"}
                        /\ \A j \in 1..Len(CsvUrls(call.args[1])) :
                              \/ In(CsvUrls(call.args[1])[j], existing_urls)
                              \/ In(CsvUrls(call.args[1])[j], urls)]_vars
    /\ (pc # "idle") ~> (pc = "idle")

\* A run has returned with the row of one url stored and that of another
\* failed, its scrape having returned nothing usable.
C15_Witness ==
    /\ Ended("process_urls") /\ call.raised = ""
    /\ \E i, j \in 1..Len(article_futures) :
          /\ UrlState(article_futures[i]) = "stored"
          /\ UrlState(article_futures[j]) = "failed"
          /\ article_futures[j].outcome \in {"none", "sentinel"}
          /\ article_futures[i].url # article_futures[j].url

\* C16: over every step of every operation, no row of Articles is deleted
\* and no field of a row other than language changes; so an insert that fails
\* or is skipped leaves the rows of the earlier inserts of its batch.
C16_ArticlesRowsKept ==
    [][/\ Len(Articles') >= Len(Articles)
       /\ \A k \in 1..Len(Articles) :
             \A f \in OtherFields : Articles'[k][f] = Articles[k][f]]_vars

\* A run on a store that held a row has returned: one scrape gave the
\* sentinel, whose insert was skipped, and the row of another is stored.
C16_Witness ==
    /\ Ended("process_urls") /\ call.raised = ""
    /\ call.before > 0
    /\ \E k \in 1..Len(article_futures) : article_futures[k].outcome = "sentinel"
    /\ Usable # {}
    /\ Len(Articles) = call.before + Cardinality(Usable)

\* C17: after any runs of process_labeled_data, each ended before the next
\* begins, on any csv files, no two rows of Labels have the same url.
C17_LabelUrlsUnique ==
    \A i, j \in 1..Len(Labels) : Labels[i].url = Labels[j].url => i = j

\* The pairs (row of Articles, row of Labels) that have the same url.
UrlPairs ==
    {p \in (1..Len(Articles)) \X (1..Len(Labels)) :
        Articles[p[1]].url = Labels[p[2]].url}

\* Whether the sequences cs and gs hold, position by position, the content
\* and the category of the pairs of UrlPairs, each pair once.
OnePositionPerPair(cs, gs) ==
    /\ Len(cs) = Len(gs)
    /\ Len(cs) = Cardinality(UrlPairs)
    /\ \A k \in 1..Len(cs) :
          Cardinality({j \in 1..Len(cs) : cs[j] = cs[k] /\ gs[j] = gs[k]}) =
          Cardinality({p \in UrlPairs : /\ Articles[p[1]].content = cs[k]
                                        /\ Labels[p[2]].category = gs[k]})

\* C18: get_training_data returns the inner join of Articles and Labels on
\* url: two sequences of the same length, one of contents and one of
\* categories, whose position i comes from one pair (article, label) of equal
\* url, every such pair at one position, so that an article without label and
\* a label without article give nothing; and the call changes neither table.
C18_InnerJoinOnUrl ==
    /\ [](Ended("get_training_data")
             => /\ call.raised = ""
                /\ Len(call.value) = 2
                /\ \/ OnePositionPerPair(call.value[1], call.value[2])
                   \/ OnePositionPerPair(call.value[2], call.value[1]))
    /\ [][call'.op = "get_training_data"
             => (Articles' = Articles /\ Labels' = Labels)]_vars

\* get_training_data has returned two pairs for the two rows of one url,
\* which has a label, on tables where another article has no label.
C18_Witness ==
    /\ Ended("get_training_data")
    /\ Len(call.value[1]) = 2
    /\ Len(Labels) = 1
    /\ \E i \in 1..Len(Articles) : Articles[i].url # Labels[1].url

\* The row insert_article stores for the article scrape returns for url u.
RowOf(u) == insert_article(<<>>, Scraped(u, "article")).rows[1]

\* The futures whose scrape returned a usable article.
Articled ==
    {k \in 1..Len(article_futures) : article_futures[k].outcome = "article"}

\* C19: the rows of Articles when process_urls returns are fixed by the csv,
\* the rows before the run and what scrape gave for each url, whatever the
\* order in which the scrapes completed: they are the rows before the run,
\* kept, and one row for every scrape that returned a usable article; only
\* the order of the rows added depends on the order of completion.
C19_RowsWhateverTheOrder ==
    (/\ Ended("process_urls") /\ call.raised = ""
     /\ \A k \in 1..Len(article_futures) : article_futures[k].outcome # "")
        => /\ Len(article_futures) = Len(NotIn(CsvUrls(call.args[1]),
                                               SelectUrl(RowsBefore(Articles))))
           /\ Len(RowsAdded(Articles)) = Cardinality(Articled)
           /\ \A k \in Articled :
                 Cardinality({j \in 1..Len(RowsAdded(Articles)) :
                                 RowsAdded(Articles)[j] = RowOf(article_futures[k].url)})
                 = Cardinality({j \in Articled :
                                   article_futures[j].url = article_futures[k].url})

\* A run has returned whose scrapes completed in the reverse of the order of
\* submission: the row of the second url of the csv is stored before that of
\* the first.
C19_Witness ==
    /\ Ended("process_urls") /\ call.raised = ""
    /\ Len(article_futures) = 2 /\ Articled = {1, 2}
    /\ article_futures[1].url # article_futures[2].url
    /\ Len(RowsAdded(Articles)) = 2
    /\ RowsAdded(Articles)[1].url = article_futures[2].url
    /\ RowsAdded(Articles)[2].url = article_futures[1].url

====
